---- MODULE Spec2Model ----
(***************************************************************************)
(* FusionNet reader (drqa/reader/fusionnet_reader.py) and the model         *)
(* argument helpers (drqa/reader/config.py).                                *)
(*                                                                          *)
(* Tensors are modelled by their provenance: the operation that produced    *)
(* them, the layer instance (parameter set) that was applied, the operand   *)
(* tensors, and the width of the feature dimension.  Two tensors are equal  *)
(* exactly when they were computed the same way from the same inputs.       *)
(***************************************************************************)
EXTENDS Integers, Sequences, FiniteSets, TLC

\* ------------------------------------------------------------------ bounds
MaxHidden == 1
MaxLayers == 2
MaxFeatures == 1
NSeeds == 2
\* how many of SampleKeys the argument namespaces draw their keys from
MaxKeys == 4

\* Values the configuration is drawn from.
EmbeddingDims == {300, 100}
CoveEmbeddingDims == {300, 200}
\* dropout rates in tenths (0.0 and the default 0.4)
DropoutRates == {0, 4}

\* The MTLSTM contextual encoder takes 300-wide word vectors and returns the
\* two directions of a 300-wide LSTM.
CoveInputDim == 300
CoveOutputDim == 2 * CoveInputDim

\* ----------------------------------------------------------------- tensors
T(op, layer, tag, args, w) ==
    [op |-> op, layer |-> layer, tag |-> tag, args |-> args, w |-> w]

None == T("none", "", 0, <<>>, 0)

\* an argument of forward
Input(name, w) == T("input", name, 0, <<>>, w)

Scalar(v) == T("scalar", "", v, <<>>, 0)

\* A local variable of forward used as an operand: locals assigned once are
\* named, not copied; the locals forward assigns twice are used by value, so
\* that an operand always denotes the value it had when it was used.
Reassigned == {"x1_emb", "x2_emb", "question_hidden", "gru_input",
               "start_scores", "end_scores"}

Ref(l, n) == T("ref", n, 0, <<>>, l[n].w)

RECURSIVE SumW(_)
SumW(ts) == IF ts = <<>> THEN 0 ELSE Head(ts).w + SumW(Tail(ts))

\* torch.cat(ts, dim=-1)
Cat(ts) == T("cat", "", 0, ts, SumW(ts))

\* nn.functional.dropout(x, p, training): the identity outside training and
\* for p = 0; otherwise the result depends on the mask drawn, rng.
FDropout(x, p, training, rng, site) ==
    IF training /\ p > 0 THEN T("dropout", site, rng, <<x, Scalar(p)>>, x.w) ELSE x

\* torch.log(x.add(1e-8))
LogAddEps(x) == T("log_add_eps", "", 0, <<x>>, x.w)

\* nn.Embedding lookup
Embedding(mods, x) == T("embedding", "embedding", 0, <<x>>, mods["embedding"].out)

\* lengths from a padding mask: mask.eq(0).long().sum(1)
Lengths(mask) == T("lengths", "", 0, <<mask>>, 0)

\* MTLSTM()(word_emb, lengths)
CoveEncoder(x, lengths) == T("MTLSTM", "cove_encoder", 0, <<x, lengths>>, CoveOutputDim)

\* layers.SeqAttnMatch: attention over y for each x, padding of y masked
SeqAttnMatch(layer, x, y, y_mask) == T("SeqAttnMatch", layer, 0, <<x, y, y_mask>>, y.w)

\* layers.StackedBRNN, one bidirectional layer; its dropout is active only in
\* training and with a positive rate
StackedBRNN(mods, layer, x, x_mask, training, rng) ==
    T("StackedBRNN", layer,
      IF training /\ mods[layer].drop > 0 THEN rng ELSE 0,
      <<x, x_mask>>, mods[layer].out)

StackedBRNNAccepts(mods, layer, x) == x.w = mods[layer].in1

\* layers.SymBilinearAttnMatch(x, y, y_mask, z): softmax over the positions of
\* y (padding of y masked) of the symmetric bilinear score of x and y, applied
\* to the value sequence z
SymBilinearAttnMatch(layer, x, y, y_mask, z) ==
    T("SymBilinearAttnMatch", layer, 0, <<x, y, y_mask, z>>, z.w)

SymBilinearAttnAccepts(mods, layer, x, y) ==
    x.w = mods[layer].in1 /\ y.w = mods[layer].in1

\* layers.LinearSeqAttn(x, x_mask): softmax weights over the positions of x
LinearSeqAttn(layer, x, x_mask) == T("LinearSeqAttn", layer, 0, <<x, x_mask>>, 0)

LinearSeqAttnAccepts(mods, layer, x) == x.w = mods[layer].in1

\* layers.weighted_avg(x, weights)
WeightedAvg(x, weights) == T("weighted_avg", "", 0, <<x, weights>>, x.w)

\* layers.BilinearSeqAttn(x, y, x_mask) with log_normalize=False: softmax over
\* the positions of x (padding of x masked) of x' W y
BilinearSeqAttn(layer, x, y, x_mask) == T("BilinearSeqAttn", layer, 0, <<x, y, x_mask>>, 0)

BilinearSeqAttnAccepts(mods, layer, x, y) ==
    x.w = mods[layer].in1 /\ y.w = mods[layer].in2

\* nn.GRU(batch_first=True) run for one step: (input, h0) -> h_n
GRU(mods, layer, input, h0) == T("GRU", layer, 0, <<input, h0>>, mods[layer].out)

GRUAccepts(mods, layer, input, h0) ==
    input.w = mods[layer].in1 /\ h0.w = mods[layer].out

\* ------------------------------------------------------------ construction
ArgsSpace ==
    [use_cove : BOOLEAN,
     embedding_dim : EmbeddingDims,
     cove_embedding_dim : CoveEmbeddingDims,
     use_qemb : BOOLEAN,
     num_features : 0..MaxFeatures,
     hidden_size : 1..MaxHidden,
     dropout_emb : DropoutRates,
     dropout_rnn : DropoutRates,
     concat_rnn_layers : BOOLEAN,
     doc_layers : 1..MaxLayers,
     question_layers : 1..MaxLayers]

Module(in1, in2, out, drop) == [in1 |-> in1, in2 |-> in2, out |-> out, drop |-> drop]

doc_input_size(a) ==
    a.embedding_dim + a.num_features
      + (IF a.use_cove THEN 2 * a.cove_embedding_dim ELSE 0)
      + (IF a.use_qemb THEN a.embedding_dim ELSE 0)

question_input_size(a) ==
    a.embedding_dim + (IF a.use_cove THEN 2 * a.cove_embedding_dim ELSE 0)

history_of_word_size(a) == a.embedding_dim + 2 * a.cove_embedding_dim + 4 * a.hidden_size

history_of_doc_word_size(a) == history_of_word_size(a) + 4 * 2 * a.hidden_size

doc_hidden_size(a) ==
    IF a.concat_rnn_layers THEN 2 * a.hidden_size * a.doc_layers ELSE 2 * a.hidden_size

question_hidden_size(a) ==
    IF a.concat_rnn_layers THEN 2 * a.hidden_size * a.question_layers ELSE 2 * a.hidden_size

\* The sub-layers __init__ always creates.
CoreModules(a) ==
    [embedding |-> Module(0, 0, a.embedding_dim, 0),
     reading_low_level_doc_rnn |->
         Module(doc_input_size(a), 0, 2 * a.hidden_size, a.dropout_rnn),
     reading_low_level_question_rnn |->
         Module(question_input_size(a), 0, 2 * a.hidden_size, a.dropout_rnn),
     reading_high_level_doc_rnn |->
         Module(a.hidden_size * 2, 0, 2 * a.hidden_size, a.dropout_rnn),
     reading_high_level_question_rnn |->
         Module(a.hidden_size * 2, 0, 2 * a.hidden_size, a.dropout_rnn),
     understanding_question_rnn |->
         Module(a.hidden_size * 4, 0, 2 * a.hidden_size, a.dropout_rnn),
     low_level_matrix_attention_layer |-> Module(history_of_word_size(a), 0, 0, 0),
     high_level_matrix_attention_layer |-> Module(history_of_word_size(a), 0, 0, 0),
     understanding_matrix_attention_layer |-> Module(history_of_word_size(a), 0, 0, 0),
     multi_level_rnn |-> Module(a.hidden_size * 2 * 5, 0, 2 * a.hidden_size, 0),
     self_boosted_matrix_attention_layer |-> Module(history_of_doc_word_size(a), 0, 0, 0),
     understanding_doc_rnn |-> Module(a.hidden_size * 2 * 2, 0, 2 * a.hidden_size, 0),
     question_self_attn |-> Module(question_hidden_size(a), 0, 0, 0),
     start_attn |-> Module(doc_hidden_size(a), question_hidden_size(a), 0, 0),
     start_gru |-> Module(doc_hidden_size(a), 0, a.hidden_size * 2, 0),
     end_attn |-> Module(doc_hidden_size(a), question_hidden_size(a), 0, 0)]

\* The sub-layers __init__ creates only under a configuration flag.
HasCoveEncoder(a) == a.use_cove /\ a.embedding_dim = CoveInputDim

OptionalModules(a) ==
    (IF HasCoveEncoder(a) THEN {"cove_encoder"} ELSE {})
      \cup (IF a.use_qemb THEN {"qemb_match"} ELSE {})

\* FusionNetReader.__init__: sub-layer attribute name -> constructed sizes
InitModules(a) ==
    LET core == CoreModules(a)
        opt == OptionalModules(a)
    IN  [n \in DOMAIN core \cup opt |->
            IF n \in DOMAIN core THEN core[n]
            ELSE IF n = "cove_encoder" THEN Module(CoveInputDim, 0, CoveOutputDim, 0)
            ELSE Module(a.embedding_dim, 0, a.embedding_dim, 0)]

\* ------------------------------------------------------- model arguments
MODEL_ARCHITECTURE ==
    {"model_type", "embedding_dim", "hidden_size", "doc_layers",
     "question_layers", "rnn_type", "concat_rnn_layers", "question_merge",
     "use_qemb", "use_in_question", "use_pos", "use_ner", "use_lemma", "use_tf",
     "use_cove"}

BIDAF_ARCHITECTURE ==
    {"modeling_layers", "span_end_encode_layers", "use_char_emb", "char_embedding_dim",
     "char_cnn_num_filters", "char_cnn_ngram_filter_sizes", "highway_layers"}

FUSIONNET_ARCHITECTURE == {"use_cove", "cove_embedding_dim", "attention_size"}

MODEL_OPTIMIZER ==
    {"fix_embeddings", "optimizer", "learning_rate", "momentum", "weight_decay",
     "rnn_padding", "dropout_rnn", "dropout_rnn_output", "dropout_emb",
     "max_len", "grad_clipping", "tune_partial", "learning_rate_scheduler",
     "learning_rate_patience", "learning_rate_factor"}

\* Argument names the namespaces are built from: an optimizer key, a key of
\* both the architecture and the FusionNet index, a key of no index (a file
\* path option), a BiDAF key, a FusionNet key, a second optimizer key.
SampleKeys ==
    <<"learning_rate", "use_cove", "data_dir", "modeling_layers",
      "attention_size", "dropout_emb">>

ArgKeys == {SampleKeys[i] : i \in 1..(IF MaxKeys < Len(SampleKeys) THEN MaxKeys
                                      ELSE Len(SampleKeys))}

ArgValues == {0, 1}

\* argparse.Namespace: attribute name -> value
Namespaces == UNION {[ks -> ArgValues] : ks \in SUBSET ArgKeys}

EmptyNamespace == [k \in {} |-> 0]

\* RequiredArgs, were the two reader-specific indexes left out.
RequiredArgsWithoutReaders == MODEL_ARCHITECTURE \cup MODEL_OPTIMIZER

\* get_model_args, line 145
RequiredArgs ==
    MODEL_ARCHITECTURE \cup MODEL_OPTIMIZER \cup BIDAF_ARCHITECTURE
      \cup FUSIONNET_ARCHITECTURE

\* get_model_args, lines 146-147
GetModelArgsOf(a) == [k \in {j \in DOMAIN a : j \in RequiredArgs} |-> a[k]]

\* OverridesKey, were the index of the key not looked at.
OverridesKeyOfAnyIndex(old, new, k) == k \in DOMAIN new /\ old[k] # new[k]

\* override_model_args, lines 161-167: what the loop body does for key k
OverridesKey(old, new, k) ==
    k \in DOMAIN new /\ old[k] # new[k] /\ k \in MODEL_OPTIMIZER

KeepsKey(old, new, k) ==
    k \in DOMAIN new /\ old[k] # new[k] /\ k \notin MODEL_OPTIMIZER

\* override_model_args, lines 160-167: the loop over the keys of old_args,
\* writing into old_args
RECURSIVE OverrideLoop(_, _, _)
OverrideLoop(old, new, keys) ==
    IF keys = {} THEN old
    ELSE LET k == CHOOSE j \in keys : TRUE
         IN  OverrideLoop(IF OverridesKey(old, new, k)
                          THEN [old EXCEPT ![k] = new[k]]
                          ELSE old,
                          new, keys \ {k})

\* the logger.info calls of the loop
OverrideLog(old, new) ==
    {<<"Overriding saved", k, old[k], new[k]>> :
        k \in {j \in DOMAIN old : OverridesKey(old, new, j)}}
      \cup {<<"Keeping saved", k, old[k], old[k]>> :
                k \in {j \in DOMAIN old : KeepsKey(old, new, j)}}

\* ------------------------------------------------------------------- state
VARIABLES
    args,       \* self.args
    modules,    \* the sub-layers held by the reader
    training,   \* self.training
    pc,         \* position inside forward, "idle" between calls
    rng,        \* the dropout masks the call draws, 0 when it draws none
    loc,        \* local variables of forward
    err,        \* the exception that ended the call, "" if none
    ret,        \* the pair forward returned
    prev,       \* the last completed call: inputs, mode, locals, result
    old_args,   \* the saved namespace handed to override_model_args
    new_args,   \* the namespace of the current command line
    entry,      \* old_args and new_args as the last operation was handed them
    result,     \* the namespace the last operation returned
    log,        \* what the last operation logged
    op          \* the last operation on the namespaces, "" if none

reader == <<args, modules, training, pc, rng, loc, err, ret, prev>>

namespaces == <<old_args, new_args, entry, result, log, op>>

vars == <<reader, namespaces>>

LocalNames ==
    {"x1", "x1_f", "x1_mask", "x2", "x2_mask",
     "x1_word_emb", "x2_word_emb", "x1_lengths", "x2_lengths",
     "x1_cove_emb", "x2_cove_emb", "x1_emb", "x2_emb",
     "x2_weighted_emb", "drnn_input",
     "low_level_doc_hiddens", "low_level_question_hiddens",
     "high_level_doc_hiddens", "high_level_question_hiddens",
     "understanding_question_hiddens",
     "history_of_doc_word", "history_of_question_word",
     "low_level_doc_question_vectors", "high_level_doc_question_vectors",
     "understanding_doc_question_vectors",
     "fa_multi_level_doc_hiddens", "history_of_doc_word2",
     "self_boosted_vectors", "understanding_doc_hiddens",
     "q_merge_weights", "question_hidden",
     "start_scores", "gru_input", "memory_hidden", "end_scores"}

NoLocals == [n \in LocalNames |-> None]

NoCall == [valid |-> FALSE, training |-> FALSE, rng |-> 0,
           loc |-> NoLocals, ret |-> <<None, None>>]

\* the reader after construction under the arguments a
Constructed(a) ==
    /\ args = a
    /\ modules = InitModules(a)
    /\ training = TRUE
    /\ pc = "idle"
    /\ rng = 0
    /\ loc = NoLocals
    /\ err = ""
    /\ ret = <<None, None>>
    /\ prev = NoCall

\* the namespaces old and new before any operation on them
Parsed(old, new) ==
    /\ old_args = old
    /\ new_args = new
    /\ entry = [old_args |-> old, new_args |-> new]
    /\ result = EmptyNamespace
    /\ log = {}
    /\ op = ""

Init ==
    /\ \E a \in ArgsSpace : Constructed(a)
    /\ Parsed(EmptyNamespace, EmptyNamespace)


\* --------------------------------------------------------------- forward
\* Advance, were forward to keep a value on the reader between calls
\* (self.question_hidden = ...).
AdvanceCaching(next, newloc) ==
    /\ pc' = next
    /\ loc' = newloc
    /\ modules' = [n \in DOMAIN modules \cup {"question_hidden"} |->
                      IF n \in DOMAIN modules THEN modules[n] ELSE Module(0, 0, 0, 0)]
    /\ UNCHANGED <<args, training, rng, err, ret, prev, namespaces>>

\* One step of forward that completes: the locals change, nothing else does.
Advance(next, newloc) ==
    /\ pc' = next
    /\ loc' = newloc
    /\ UNCHANGED <<args, modules, training, rng, err, ret, prev, namespaces>>

\* A step of forward that raises: the call ends with the exception.
Raise(kind) ==
    /\ pc' = "raised"
    /\ err' = kind
    /\ UNCHANGED <<args, modules, training, rng, loc, ret, prev, namespaces>>

\* The call that has just returned, as the next call will remember it.
Snapshot ==
    [valid |-> TRUE, training |-> training, rng |-> rng, loc |-> loc, ret |-> ret]

Between == pc \in {"idle", "done", "raised"}

\* The caller keeps the result of a completed call.
Remember ==
    /\ pc = "done"
    /\ prev' = Snapshot
    /\ pc' = "idle"
    /\ UNCHANGED <<args, modules, training, rng, loc, err, ret, namespaces>>

\* model.train() / model.eval() between two calls
SetTraining ==
    /\ Between
    /\ training' = ~training
    /\ pc' = "idle"
    /\ rng' = 0
    /\ loc' = NoLocals
    /\ err' = ""
    /\ ret' = <<None, None>>
    /\ UNCHANGED <<args, modules, prev, namespaces>>

\* Whether a forward pass in the current mode draws from the random generator:
\* only dropout does, and only in training with a positive rate.
DrawsRandom == training /\ (args.dropout_emb > 0 \/ args.dropout_rnn > 0)

\* forward(x1, x1_f, x1_mask, x2, x2_mask) is entered
Call ==
    /\ Between
    /\ rng' \in (IF DrawsRandom THEN 1..NSeeds ELSE {0})
    /\ loc' = [NoLocals EXCEPT
                  !.x1 = Input("x1", 0),
                  !.x1_f = Input("x1_f", args.num_features),
                  !.x1_mask = Input("x1_mask", 0),
                  !.x2 = Input("x2", 0),
                  !.x2_mask = Input("x2_mask", 0)]
    /\ pc' = "embed"
    /\ err' = ""
    /\ ret' = <<None, None>>
    /\ UNCHANGED <<args, modules, training, prev, namespaces>>

\* lines 182-186
Embed ==
    /\ pc = "embed"
    /\ Advance("cove",
          [loc EXCEPT
              !.x1_word_emb = Embedding(modules, Ref(loc, "x1")),
              !.x2_word_emb = Embedding(modules, Ref(loc, "x2")),
              !.x1_lengths = Lengths(Ref(loc, "x1_mask")),
              !.x2_lengths = Lengths(Ref(loc, "x2_mask"))])

\* lines 188-192: self.cove_encoder is read whatever the configuration
Cove ==
    /\ pc = "cove"
    /\ IF "cove_encoder" \notin DOMAIN modules
       THEN Raise("AttributeError")
       ELSE LET l1 == [loc EXCEPT
                          !.x1_cove_emb = CoveEncoder(Ref(loc, "x1_word_emb"),
                                                      Ref(loc, "x1_lengths")),
                          !.x2_cove_emb = CoveEncoder(Ref(loc, "x2_word_emb"),
                                                      Ref(loc, "x2_lengths"))]
            IN  Advance("emb_dropout",
                   [l1 EXCEPT
                       !.x1_emb = Cat(<<Ref(l1, "x1_word_emb"), Ref(l1, "x1_cove_emb")>>),
                       !.x2_emb = Cat(<<Ref(l1, "x2_word_emb"), Ref(l1, "x2_cove_emb")>>)])

\* EmbDropout, were the rate left to its default (0.5) whatever dropout_emb.
EmbDropoutDefaultRate ==
    /\ pc = "emb_dropout"
    /\ Advance("doc_input",
          [loc EXCEPT
              !.x1_emb = FDropout(loc.x1_emb, 5, training, rng, "x1_emb"),
              !.x2_emb = FDropout(loc.x2_emb, 5, training, rng, "x2_emb")])

\* lines 194-199
EmbDropout ==
    /\ pc = "emb_dropout"
    /\ IF args.dropout_emb > 0
       THEN Advance("doc_input",
               [loc EXCEPT
                   !.x1_emb = FDropout(loc.x1_emb, args.dropout_emb, training, rng, "x1_emb"),
                   !.x2_emb = FDropout(loc.x2_emb, args.dropout_emb, training, rng, "x2_emb")])
       ELSE Advance("doc_input", loc)

\* lines 201-210: the list of document encoder inputs
DocInput ==
    /\ pc = "doc_input"
    /\ LET l1 == IF args.use_qemb
                 THEN [loc EXCEPT !.x2_weighted_emb =
                          SeqAttnMatch("qemb_match", Ref(loc, "x1_word_emb"),
                                       Ref(loc, "x2_word_emb"), Ref(loc, "x2_mask"))]
                 ELSE loc
           d1 == <<l1.x1_emb>>
           d2 == IF args.use_qemb THEN Append(d1, Ref(l1, "x2_weighted_emb")) ELSE d1
           d3 == IF args.num_features > 0 THEN Append(d2, Ref(l1, "x1_f")) ELSE d2
       IN  Advance("low_level", [l1 EXCEPT !.drnn_input = T("list", "", 0, d3, 0)])

\* lines 213-214
LowLevel ==
    /\ pc = "low_level"
    /\ LET din == Cat(loc.drnn_input.args)
       IN  IF /\ StackedBRNNAccepts(modules, "reading_low_level_doc_rnn", din)
              /\ StackedBRNNAccepts(modules, "reading_low_level_question_rnn", loc.x2_emb)
           THEN Advance("high_level",
                   [loc EXCEPT
                       !.low_level_doc_hiddens =
                           StackedBRNN(modules, "reading_low_level_doc_rnn",
                                       din, Ref(loc, "x1_mask"), training, rng),
                       !.low_level_question_hiddens =
                           StackedBRNN(modules, "reading_low_level_question_rnn",
                                       loc.x2_emb, Ref(loc, "x2_mask"), training, rng)])
           ELSE Raise("RuntimeError")

\* lines 217-218
HighLevel ==
    /\ pc = "high_level"
    /\ IF /\ StackedBRNNAccepts(modules, "reading_high_level_doc_rnn",
                                Ref(loc, "low_level_doc_hiddens"))
          /\ StackedBRNNAccepts(modules, "reading_high_level_question_rnn",
                                Ref(loc, "low_level_question_hiddens"))
       THEN Advance("und_question",
               [loc EXCEPT
                   !.high_level_doc_hiddens =
                       StackedBRNN(modules, "reading_high_level_doc_rnn",
                                   Ref(loc, "low_level_doc_hiddens"), Ref(loc, "x1_mask"),
                                   training, rng),
                   !.high_level_question_hiddens =
                       StackedBRNN(modules, "reading_high_level_question_rnn",
                                   Ref(loc, "low_level_question_hiddens"), Ref(loc, "x2_mask"),
                                   training, rng)])
       ELSE Raise("RuntimeError")

\* lines 221-223
UnderstandingQuestion ==
    /\ pc = "und_question"
    /\ LET qin == Cat(<<Ref(loc, "low_level_question_hiddens"),
                        Ref(loc, "high_level_question_hiddens")>>)
       IN  IF StackedBRNNAccepts(modules, "understanding_question_rnn", qin)
           THEN Advance("history",
                   [loc EXCEPT
                       !.understanding_question_hiddens =
                           StackedBRNN(modules, "understanding_question_rnn",
                                       qin, Ref(loc, "x2_mask"), training, rng)])
           ELSE Raise("RuntimeError")

\* lines 226-227
HistoryOfDocWord(l) ==
    Cat(<<Ref(l, "x1_word_emb"), Ref(l, "x1_cove_emb"),
          Ref(l, "low_level_doc_hiddens"), Ref(l, "high_level_doc_hiddens")>>)

\* lines 229-230
HistoryOfQuestionWord(l) ==
    Cat(<<Ref(l, "x2_word_emb"), Ref(l, "x2_cove_emb"), Ref(l, "low_level_question_hiddens"),
          Ref(l, "low_level_question_hiddens")>>)

\* lines 225-230
History ==
    /\ pc = "history"
    /\ Advance("cross_attn",
          [loc EXCEPT
              !.history_of_doc_word = HistoryOfDocWord(loc),
              !.history_of_question_word = HistoryOfQuestionWord(loc)])

\* CrossAttention, were the high-level pass to reuse the low-level layer.
CrossAttentionSharedLayer ==
    /\ pc = "cross_attn"
    /\ Advance("multi_level",
          [loc EXCEPT
              !.low_level_doc_question_vectors =
                  SymBilinearAttnMatch("low_level_matrix_attention_layer",
                      Ref(loc, "history_of_doc_word"), Ref(loc, "history_of_question_word"),
                      Ref(loc, "x2_mask"), Ref(loc, "low_level_question_hiddens")),
              !.high_level_doc_question_vectors =
                  SymBilinearAttnMatch("low_level_matrix_attention_layer",
                      Ref(loc, "history_of_doc_word"), Ref(loc, "history_of_question_word"),
                      Ref(loc, "x2_mask"), Ref(loc, "high_level_question_hiddens")),
              !.understanding_doc_question_vectors =
                  SymBilinearAttnMatch("understanding_matrix_attention_layer",
                      Ref(loc, "history_of_doc_word"), Ref(loc, "history_of_question_word"),
                      Ref(loc, "x2_mask"), Ref(loc, "understanding_question_hiddens"))])

\* lines 247-252: the three fully-aware attention passes
CrossAttention ==
    /\ pc = "cross_attn"
    /\ IF \A layer \in {"low_level_matrix_attention_layer",
                        "high_level_matrix_attention_layer",
                        "understanding_matrix_attention_layer"} :
              SymBilinearAttnAccepts(modules, layer, Ref(loc, "history_of_doc_word"),
                                     Ref(loc, "history_of_question_word"))
       THEN Advance("multi_level",
               [loc EXCEPT
                   !.low_level_doc_question_vectors =
                       SymBilinearAttnMatch("low_level_matrix_attention_layer",
                           Ref(loc, "history_of_doc_word"), Ref(loc, "history_of_question_word"),
                           Ref(loc, "x2_mask"), Ref(loc, "low_level_question_hiddens")),
                   !.high_level_doc_question_vectors =
                       SymBilinearAttnMatch("high_level_matrix_attention_layer",
                           Ref(loc, "history_of_doc_word"), Ref(loc, "history_of_question_word"),
                           Ref(loc, "x2_mask"), Ref(loc, "high_level_question_hiddens")),
                   !.understanding_doc_question_vectors =
                       SymBilinearAttnMatch("understanding_matrix_attention_layer",
                           Ref(loc, "history_of_doc_word"), Ref(loc, "history_of_question_word"),
                           Ref(loc, "x2_mask"), Ref(loc, "understanding_question_hiddens"))])
       ELSE Raise("RuntimeError")

\* lines 256-259
MultiLevelInput(l) ==
    Cat(<<Ref(l, "low_level_doc_hiddens"), Ref(l, "high_level_doc_hiddens"),
          Ref(l, "low_level_doc_question_vectors"), Ref(l, "high_level_doc_question_vectors"),
          Ref(l, "understanding_doc_question_vectors")>>)

\* lines 256-260
MultiLevel ==
    /\ pc = "multi_level"
    /\ IF StackedBRNNAccepts(modules, "multi_level_rnn", MultiLevelInput(loc))
       THEN Advance("history2",
               [loc EXCEPT
                   !.fa_multi_level_doc_hiddens =
                       StackedBRNN(modules, "multi_level_rnn", MultiLevelInput(loc),
                                   Ref(loc, "x1_mask"), training, rng)])
       ELSE Raise("RuntimeError")

\* lines 263-265
HistoryOfDocWord2(l) ==
    Cat(<<Ref(l, "x1_word_emb"), Ref(l, "x1_cove_emb"),
          Ref(l, "low_level_doc_hiddens"), Ref(l, "high_level_doc_hiddens"),
          Ref(l, "low_level_doc_question_vectors"), Ref(l, "high_level_doc_question_vectors"),
          Ref(l, "understanding_doc_question_vectors"), Ref(l, "fa_multi_level_doc_hiddens")>>)

History2 ==
    /\ pc = "history2"
    /\ Advance("self_boosted", [loc EXCEPT !.history_of_doc_word2 = HistoryOfDocWord2(loc)])

\* SelfBoosted, were the values the low-level document hiddens.
SelfBoostedOverLowLevel ==
    /\ pc = "self_boosted"
    /\ Advance("und_doc",
          [loc EXCEPT
              !.self_boosted_vectors =
                  SymBilinearAttnMatch("self_boosted_matrix_attention_layer",
                      Ref(loc, "history_of_doc_word2"), Ref(loc, "history_of_doc_word2"),
                      Ref(loc, "x1_mask"), Ref(loc, "low_level_doc_hiddens"))])

\* lines 276-277
SelfBoosted ==
    /\ pc = "self_boosted"
    /\ IF SymBilinearAttnAccepts(modules, "self_boosted_matrix_attention_layer",
                                 Ref(loc, "history_of_doc_word2"), Ref(loc, "history_of_doc_word2"))
       THEN Advance("und_doc",
               [loc EXCEPT
                   !.self_boosted_vectors =
                       SymBilinearAttnMatch("self_boosted_matrix_attention_layer",
                           Ref(loc, "history_of_doc_word2"), Ref(loc, "history_of_doc_word2"),
                           Ref(loc, "x1_mask"), Ref(loc, "fa_multi_level_doc_hiddens"))])
       ELSE Raise("RuntimeError")

\* lines 282-283
UnderstandingDocInput(l) ==
    Cat(<<Ref(l, "fa_multi_level_doc_hiddens"), Ref(l, "self_boosted_vectors")>>)

UnderstandingDoc ==
    /\ pc = "und_doc"
    /\ IF StackedBRNNAccepts(modules, "understanding_doc_rnn", UnderstandingDocInput(loc))
       THEN Advance("q_pool",
               [loc EXCEPT
                   !.understanding_doc_hiddens =
                       StackedBRNN(modules, "understanding_doc_rnn",
                                   UnderstandingDocInput(loc), Ref(loc, "x1_mask"), training, rng)])
       ELSE Raise("RuntimeError")

\* lines 288-290
QuestionPool ==
    /\ pc = "q_pool"
    /\ IF LinearSeqAttnAccepts(modules, "question_self_attn",
                               Ref(loc, "understanding_question_hiddens"))
       THEN LET l1 == [loc EXCEPT !.q_merge_weights =
                              LinearSeqAttn("question_self_attn",
                                            Ref(loc, "understanding_question_hiddens"),
                                            Ref(loc, "x2_mask"))]
            IN  Advance("start",
                   [l1 EXCEPT !.question_hidden =
                       WeightedAvg(Ref(l1, "understanding_question_hiddens"),
                                   Ref(l1, "q_merge_weights"))])
       ELSE Raise("RuntimeError")

\* StartScores, were the softmax handed the question padding mask.
StartScoresQuestionMask(l) ==
    BilinearSeqAttn("start_attn", Ref(l, "understanding_doc_hiddens"), l.question_hidden,
                    Ref(l, "x2_mask"))

\* line 294
StartScores(l) ==
    BilinearSeqAttn("start_attn", Ref(l, "understanding_doc_hiddens"), l.question_hidden,
                    Ref(l, "x1_mask"))

StartStage ==
    /\ pc = "start"
    /\ IF BilinearSeqAttnAccepts(modules, "start_attn",
                                 Ref(loc, "understanding_doc_hiddens"), loc.question_hidden)
       THEN Advance("memory", [loc EXCEPT !.start_scores = StartScores(loc)])
       ELSE Raise("RuntimeError")

\* x.unsqueeze(dim) and x.squeeze(dim)
Unsqueeze(x, dim) == T("unsqueeze", "", dim, <<x>>, x.w)

Squeeze(x, dim) == T("squeeze", "", dim, <<x>>, x.w)

\* line 296, 298
GruInput(l) == Unsqueeze(WeightedAvg(Ref(l, "understanding_doc_hiddens"), l.start_scores), 1)

\* lines 301, 303
MemoryHidden(mods, l) == Squeeze(GRU(mods, "start_gru", l.gru_input, l.question_hidden), 0)

\* lines 296-303
MemoryStage ==
    /\ pc = "memory"
    /\ LET l1 == [loc EXCEPT !.gru_input = GruInput(loc),
                             !.question_hidden = Unsqueeze(loc.question_hidden, 0)]
       IN  IF GRUAccepts(modules, "start_gru", l1.gru_input, l1.question_hidden)
           THEN Advance("end", [l1 EXCEPT !.memory_hidden = MemoryHidden(modules, l1)])
           ELSE Raise("RuntimeError")

\* EndScores, were the end stage conditioned on the pooled question vector.
EndScoresOnQuestion(l) ==
    BilinearSeqAttn("end_attn", Ref(l, "understanding_doc_hiddens"), l.question_hidden,
                    Ref(l, "x1_mask"))

\* line 305
EndScores(l) ==
    BilinearSeqAttn("end_attn", Ref(l, "understanding_doc_hiddens"),
                    Ref(l, "memory_hidden"), Ref(l, "x1_mask"))

EndStage ==
    /\ pc = "end"
    /\ IF BilinearSeqAttnAccepts(modules, "end_attn",
                                 Ref(loc, "understanding_doc_hiddens"), Ref(loc, "memory_hidden"))
       THEN Advance("log", [loc EXCEPT !.end_scores = EndScores(loc)])
       ELSE Raise("RuntimeError")

\* LogAndReturn, were the conversion applied in inference mode as well.
LogAndReturnAnyMode ==
    /\ pc = "log"
    /\ LET l1 == [loc EXCEPT !.start_scores = LogAddEps(loc.start_scores),
                             !.end_scores = LogAddEps(loc.end_scores)]
       IN  /\ loc' = l1
           /\ ret' = <<l1.start_scores, l1.end_scores>>
    /\ pc' = "done"
    /\ UNCHANGED <<args, modules, training, rng, err, prev, namespaces>>

\* lines 306-310
LogAndReturn ==
    /\ pc = "log"
    /\ LET l1 == IF training
                 THEN [loc EXCEPT !.start_scores = LogAddEps(loc.start_scores),
                                  !.end_scores = LogAddEps(loc.end_scores)]
                 ELSE loc
       IN  /\ loc' = l1
           /\ ret' = <<l1.start_scores, l1.end_scores>>
    /\ pc' = "done"
    /\ UNCHANGED <<args, modules, training, rng, err, prev, namespaces>>

Forward ==
    \/ Embed \/ Cove \/ EmbDropout \/ DocInput \/ LowLevel \/ HighLevel
    \/ UnderstandingQuestion \/ History \/ CrossAttention \/ MultiLevel
    \/ History2 \/ SelfBoosted \/ UnderstandingDoc \/ QuestionPool
    \/ StartStage \/ MemoryStage \/ EndStage \/ LogAndReturn

Next == SetTraining \/ Call \/ Forward

Spec == Init /\ [][Next]_vars

\* The same reader with a caller that keeps the result of a completed call
\* while it calls forward again.
NextCalls == SetTraining \/ Call \/ Forward \/ Remember

SpecCalls == Init /\ [][NextCalls]_vars

\* ------------------------------------------------- config.py operations
\* get_model_args(new_args), lines 138-147
GetModelArgs ==
    /\ result' = GetModelArgsOf(new_args)
    /\ entry' = [old_args |-> old_args, new_args |-> new_args]
    /\ log' = {}
    /\ op' = "get_model_args"
    /\ UNCHANGED <<old_args, new_args, reader>>

\* OverrideModelArgs, were the loop to write into a copy of vars(old_args).
OverrideModelArgsOnCopy ==
    /\ result' = OverrideLoop(old_args, new_args, DOMAIN old_args)
    /\ entry' = [old_args |-> old_args, new_args |-> new_args]
    /\ log' = OverrideLog(old_args, new_args)
    /\ op' = "override_model_args"
    /\ UNCHANGED <<old_args, new_args, reader>>

\* override_model_args(old_args, new_args), lines 150-168: vars(old_args) is
\* the namespace's own dictionary, so the loop writes into old_args
OverrideModelArgs ==
    /\ old_args' = OverrideLoop(old_args, new_args, DOMAIN old_args)
    /\ result' = old_args'
    /\ entry' = [old_args |-> old_args, new_args |-> new_args]
    /\ log' = OverrideLog(old_args, new_args)
    /\ op' = "override_model_args"
    /\ UNCHANGED <<new_args, reader>>

InitArgs ==
    /\ Constructed(CHOOSE a \in ArgsSpace : TRUE)
    /\ \E old \in Namespaces, new \in Namespaces : Parsed(old, new)

NextArgs == GetModelArgs \/ OverrideModelArgs

SpecArgs == InitArgs /\ [][NextArgs]_vars

\* ---------------------------------------------------------------- claims
IsSet(n) == loc[n] # None

RECURSIVE SubTerms(_)
SubTerms(t) == {t} \cup UNION {SubTerms(t.args[i]) : i \in DOMAIN t.args}

\* every tensor the locals of the current call hold or were computed through
AllTerms == UNION {SubTerms(loc[n]) : n \in LocalNames}

\* the pooled question vector, as line 290 computes it
Pooled ==
    WeightedAvg(Ref(loc, "understanding_question_hiddens"), Ref(loc, "q_merge_weights"))

\* the start distribution before any log conversion
PlainStart ==
    BilinearSeqAttn("start_attn", Ref(loc, "understanding_doc_hiddens"), Pooled,
                    Ref(loc, "x1_mask"))

\* the end distribution before any log conversion
PlainEnd ==
    BilinearSeqAttn("end_attn", Ref(loc, "understanding_doc_hiddens"),
                    Ref(loc, "memory_hidden"), Ref(loc, "x1_mask"))

\* C1: the span decoder runs start stage, memory update, end stage in that
\* order: end_scores exists only once start_scores and the memory vector do;
\* start_scores is the bilinear attention of the fused document hiddens and
\* the pooled question vector; the memory vector is the one-step GRU output
\* on the start_scores-weighted average of the fused document hiddens with
\* the pooled question vector as initial state; end_scores is the bilinear
\* attention of the same fused document hiddens and the memory vector.
C1_DecoderStages ==
    /\ IsSet("end_scores") => IsSet("memory_hidden")
    /\ IsSet("memory_hidden") => IsSet("start_scores") /\ IsSet("gru_input")
    /\ IsSet("start_scores") =>
          /\ IsSet("understanding_doc_hiddens")
          /\ loc.start_scores \in {PlainStart, LogAddEps(PlainStart)}
    /\ IsSet("memory_hidden") =>
          /\ loc.gru_input =
                Unsqueeze(WeightedAvg(Ref(loc, "understanding_doc_hiddens"), PlainStart), 1)
          /\ loc.memory_hidden =
                Squeeze(T("GRU", "start_gru", 0, <<loc.gru_input, Unsqueeze(Pooled, 0)>>,
                          2 * args.hidden_size), 0)
    /\ IsSet("end_scores") =>
          /\ loc.end_scores \in {PlainEnd, LogAddEps(PlainEnd)}
          /\ Pooled \notin {loc.end_scores.args[i] : i \in DOMAIN loc.end_scores.args}

C1_Witness == pc = "done" /\ IsSet("end_scores") /\ loc.end_scores = PlainEnd

\* the locals of forward other than the two returned distributions
Intermediates == LocalNames \ {"start_scores", "end_scores"}

\* a completed call and the remembered one before it ran in different modes
TwoModes == pc = "done" /\ prev.valid /\ prev.training # training

\* the results of the training-mode and of the inference-mode call of the two
TrainRet == IF training THEN ret ELSE prev.ret

EvalRet == IF training THEN prev.ret ELSE ret

SameButForLog ==
    /\ \A n \in Intermediates : loc[n] = prev.loc[n]
    /\ \A i \in 1..2 : TrainRet[i] = LogAddEps(EvalRet[i])

\* C2 as stated: for every configuration, two calls on the same inputs in
\* different modes agree on every intermediate value and their results differ
\* only by the log(p + 1e-8) conversion.
C2_ModeOnlyLog == TwoModes => SameButForLog

\* C2 as amended: the same, for the configurations whose dropout rates are 0.
C2_ModeOnlyLogWithoutDropout ==
    TwoModes /\ args.dropout_emb = 0 /\ args.dropout_rnn = 0 => SameButForLog

C2_Witness == TwoModes /\ args.dropout_emb = 0 /\ args.dropout_rnn = 0 /\ training

\* C3: the question history vector is the concatenation of the question's
\* word embedding, contextual embedding, low-level hiddens and high-level
\* hiddens, each once.
C3_QuestionHistory ==
    IsSet("history_of_question_word") =>
        loc.history_of_question_word =
            Cat(<<Ref(loc, "x2_word_emb"), Ref(loc, "x2_cove_emb"),
                  Ref(loc, "low_level_question_hiddens"),
                  Ref(loc, "high_level_question_hiddens")>>)

FusionLayers ==
    <<"low_level_matrix_attention_layer", "high_level_matrix_attention_layer",
      "understanding_matrix_attention_layer">>

FusionVectors ==
    <<"low_level_doc_question_vectors", "high_level_doc_question_vectors",
      "understanding_doc_question_vectors">>

FusionValues ==
    <<"low_level_question_hiddens", "high_level_question_hiddens",
      "understanding_question_hiddens">>

\* C4: the three fusion attention passes take the same document history, the
\* same question history and the question padding mask, each its own level's
\* question hiddens as values and each its own layer instance, none of them
\* the self-boosted one; the multi-level encoder reads the low- and high-level
\* document hiddens followed by the three outputs.
C4_FusionPasses ==
    /\ \A i \in 1..3 :
          IsSet(FusionVectors[i]) =>
              /\ loc[FusionVectors[i]].op = "SymBilinearAttnMatch"
              /\ loc[FusionVectors[i]].layer = FusionLayers[i]
              /\ loc[FusionVectors[i]].args =
                    <<Ref(loc, "history_of_doc_word"), Ref(loc, "history_of_question_word"),
                      Ref(loc, "x2_mask"), Ref(loc, FusionValues[i])>>
    /\ \A i, j \in 1..3 :
          IsSet(FusionVectors[i]) /\ IsSet(FusionVectors[j]) /\ i # j =>
              loc[FusionVectors[i]].layer # loc[FusionVectors[j]].layer
    /\ \A i \in 1..3 :
          IsSet(FusionVectors[i]) /\ IsSet("self_boosted_vectors") =>
              loc[FusionVectors[i]].layer # loc.self_boosted_vectors.layer
    /\ IsSet("fa_multi_level_doc_hiddens") =>
          /\ loc.fa_multi_level_doc_hiddens.layer = "multi_level_rnn"
          /\ loc.fa_multi_level_doc_hiddens.args[1] =
                Cat(<<Ref(loc, "low_level_doc_hiddens"), Ref(loc, "high_level_doc_hiddens"),
                      Ref(loc, FusionVectors[1]), Ref(loc, FusionVectors[2]),
                      Ref(loc, FusionVectors[3])>>)

C4_Witness == IsSet("fa_multi_level_doc_hiddens") /\ IsSet("self_boosted_vectors")

\* the stages that normalise scores with a softmax under a padding mask
SoftmaxOps == {"SeqAttnMatch", "SymBilinearAttnMatch", "LinearSeqAttn", "BilinearSeqAttn"}

SoftmaxTerms == {t \in AllTerms : t.op \in SoftmaxOps}

\* the padding mask a softmax stage was handed
MaskOf(t) == IF t.op = "LinearSeqAttn" THEN t.args[2] ELSE t.args[3]

DecoderLayers == {"start_attn", "end_attn"}

\* C5 as stated: the document padding mask is handed to the decoder's two
\* softmax stages only; cross-attention and question pooling are handed the
\* question padding mask.
C5_DocMaskOnlyInDecoder ==
    \A t \in SoftmaxTerms :
        MaskOf(t) = Ref(loc, IF t.layer \in DecoderLayers THEN "x1_mask" ELSE "x2_mask")

\* C5 as amended: the document padding mask is handed to the decoder's two
\* softmax stages and to self-boosted attention, and to no other softmax
\* stage; the three cross-attention passes, question pooling and the weighted
\* question embedding are handed the question padding mask.
C5_DocMaskInDecoderAndSelfBoosted ==
    \A t \in SoftmaxTerms :
        MaskOf(t) =
            Ref(loc, IF t.layer \in DecoderLayers \cup {"self_boosted_matrix_attention_layer"}
                     THEN "x1_mask" ELSE "x2_mask")

C5_Witness ==
    /\ pc = "done"
    /\ args.use_qemb
    /\ {t.layer : t \in SoftmaxTerms} =
          {"qemb_match", "question_self_attn", "start_attn", "end_attn",
           "self_boosted_matrix_attention_layer"}
            \cup {FusionLayers[i] : i \in 1..3}

\* C6: whether or not the configuration enables contextual embeddings, no
\* call of forward ends for want of the contextual encoder: forward reads it
\* only when __init__ created it.
C6_CoveOptional == pc = "raised" => err # "AttributeError"

\* the expanded document history, as the self-boosted attention expects it
ExpandedHistory ==
    Cat(<<Ref(loc, "x1_word_emb"), Ref(loc, "x1_cove_emb"),
          Ref(loc, "low_level_doc_hiddens"), Ref(loc, "high_level_doc_hiddens"),
          Ref(loc, FusionVectors[1]), Ref(loc, FusionVectors[2]), Ref(loc, FusionVectors[3]),
          Ref(loc, "fa_multi_level_doc_hiddens")>>)

SelfBoostedTerms == {t \in AllTerms : t.layer = "self_boosted_matrix_attention_layer"}

SameModeNoDropout == pc = "done" /\ prev.valid /\ prev.training = training /\ ~DrawsRandom

ArchitectureKeys == MODEL_ARCHITECTURE \cup BIDAF_ARCHITECTURE \cup FUSIONNET_ARCHITECTURE

\* C9: after override_model_args the returned namespace holds, for every key
\* of old_args, new_args' value if the key is an optimizer key present in
\* new_args and old_args' original value otherwise; no architecture key
\* changes.
C9_OverrideKeepsArchitecture ==
    op = "override_model_args" =>
        /\ \A k \in DOMAIN entry.old_args :
              /\ k \in DOMAIN result
              /\ result[k] = IF k \in MODEL_OPTIMIZER /\ k \in DOMAIN entry.new_args
                             THEN entry.new_args[k]
                             ELSE entry.old_args[k]
        /\ \A k \in DOMAIN entry.old_args \cap ArchitectureKeys :
              result[k] = entry.old_args[k]

C9_Witness ==
    /\ op = "override_model_args"
    /\ \E k \in DOMAIN entry.old_args \cap MODEL_OPTIMIZER : result[k] # entry.old_args[k]
    /\ \E k \in DOMAIN entry.old_args \cap DOMAIN entry.new_args \cap ArchitectureKeys :
          entry.new_args[k] # entry.old_args[k]

\* C10: get_model_args returns a namespace whose keys are exactly the keys of
\* its argument that are in one of the four indexes, each with the argument's
\* value, and leaves its argument as it was.
C10_GetModelArgsFilters ==
    op = "get_model_args" =>
        /\ DOMAIN result = DOMAIN entry.new_args \cap
              (MODEL_ARCHITECTURE \cup MODEL_OPTIMIZER \cup BIDAF_ARCHITECTURE
                 \cup FUSIONNET_ARCHITECTURE)
        /\ \A k \in DOMAIN result : result[k] = entry.new_args[k]
        /\ new_args = entry.new_args

C10_Witness ==
    /\ op = "get_model_args"
    /\ DOMAIN result # {}
    /\ DOMAIN result # DOMAIN entry.new_args

IsLog(t) == t.op = "log_add_eps"

\* C11: the conversion log(p + 1e-8) comes after the end stage and in training
\* mode only: a distribution held in log form is held by a completed training
\* call, together with the other one; the memory update averages the fused
\* document hiddens with the plain start probabilities in either mode; a
\* completed inference call returns both distributions plain, a completed
\* training call returns the conversion of both.
C11_LogAfterEndStage ==
    /\ IsLog(loc.start_scores) \/ IsLog(loc.end_scores) =>
          /\ pc = "done" /\ training
          /\ IsSet("memory_hidden")
          /\ IsLog(loc.start_scores) /\ IsLog(loc.end_scores)
    /\ IsSet("gru_input") =>
          /\ loc.gru_input.args[1].args[2] = PlainStart
          /\ ~IsLog(loc.gru_input.args[1].args[2])
    /\ pc = "done" /\ ~training =>
          /\ ret = <<PlainStart, PlainEnd>>
          /\ ~IsLog(ret[1]) /\ ~IsLog(ret[2])
    /\ pc = "done" /\ training => ret = <<LogAddEps(PlainStart), LogAddEps(PlainEnd)>>

C11_Witness ==
    /\ pc = "done" /\ training
    /\ ret[1] = LogAddEps(PlainStart)
    /\ loc.gru_input.args[1].args[2] = PlainStart

\* the decoder has been reached: the fused document hiddens exist
InDecoder == IsSet("understanding_doc_hiddens")

\* C12: for every configuration the sizes the decoder is constructed with are
\* the widths of the tensors forward feeds it: the document size of
\* start_attn, start_gru and end_attn is the width of the fused document
\* hiddens, the question size of question_self_attn, start_attn and end_attn
\* is the width of the understanding-level question hiddens and of the
\* memory vector, both 2 * hidden_size, and no decoder stage raises.
C12_DecoderSizes ==
    InDecoder =>
       /\ loc.understanding_doc_hiddens.w = 2 * args.hidden_size
       /\ loc.understanding_question_hiddens.w = 2 * args.hidden_size
       /\ \A n \in {"start_attn", "start_gru", "end_attn"} :
              modules[n].in1 = loc.understanding_doc_hiddens.w
       /\ modules.question_self_attn.in1 = loc.understanding_question_hiddens.w
       /\ \A n \in {"start_attn", "end_attn"} :
              modules[n].in2 = loc.understanding_question_hiddens.w
       /\ IsSet("memory_hidden") => loc.memory_hidden.w = modules.end_attn.in2
       /\ pc # "raised"

FusionAttentionLayers == {FusionLayers[i] : i \in DOMAIN FusionLayers}

\* C13: for every combination of use_cove, use_qemb and num_features each
\* encoder and attention layer is constructed with the width of the tensor
\* forward concatenates for it: the low-level document encoder with that of
\* [word embedding, contextual embedding, weighted question embedding if
\* use_qemb, features if any], the low-level question encoder with that of
\* [word embedding, contextual embedding], the three fusion attention layers
\* with that of either history vector (so with the question encoder's input
\* width plus the low- and high-level hiddens' 4 * hidden_size), the
\* self-boosted layer with that of the expanded document history, the
\* multi-level and final document encoders with 10 * hidden_size and
\* 4 * hidden_size; so no stage before the decoder raises a shape error.
C13_InputWidths ==
    /\ \A n \in FusionAttentionLayers :
          modules[n].in1 = modules.reading_low_level_question_rnn.in1 + 4 * args.hidden_size
    /\ pc = "low_level" =>
          /\ Cat(loc.drnn_input.args).w = modules.reading_low_level_doc_rnn.in1
          /\ loc.x2_emb.w = modules.reading_low_level_question_rnn.in1
    /\ pc = "cross_attn" =>
          \A n \in FusionAttentionLayers :
             /\ loc.history_of_doc_word.w = modules[n].in1
             /\ loc.history_of_question_word.w = modules[n].in1
    /\ pc = "multi_level" =>
          /\ MultiLevelInput(loc).w = 10 * args.hidden_size
          /\ modules.multi_level_rnn.in1 = 10 * args.hidden_size
    /\ pc = "self_boosted" =>
          loc.history_of_doc_word2.w = modules.self_boosted_matrix_attention_layer.in1
    /\ pc = "und_doc" =>
          /\ UnderstandingDocInput(loc).w = 4 * args.hidden_size
          /\ modules.understanding_doc_rnn.in1 = 4 * args.hidden_size
    /\ pc = "raised" /\ err = "RuntimeError" => InDecoder

\* C14: override_model_args has a fixed frame: the returned namespace has
\* exactly the keys old_args had at the call (none added from new_args, none
\* removed), new_args is as it was, and the caller's old_args holds the same
\* key/value pairs as the returned namespace, the overrides included.
C14_OverrideFrame ==
    op = "override_model_args" =>
        /\ DOMAIN result = DOMAIN entry.old_args
        /\ new_args = entry.new_args
        /\ old_args = result

C14_Witness ==
    /\ op = "override_model_args"
    /\ old_args # entry.old_args
    /\ DOMAIN entry.new_args \ DOMAIN entry.old_args # {}
    /\ DOMAIN entry.old_args \ DOMAIN entry.new_args # {}

====
